---- MODULE Spec2Model ----
(***************************************************************************)
(* Wallet Session Controller of wallet-test: the React component `Home`    *)
(* in its three page variants.                                             *)
(*   variant 1 : src/pages/index.js                                        *)
(*   variant 2 : src/unnamed/part_000, lines 1-451                         *)
(*   variant 3 : src/unnamed/part_000, lines 453-956                       *)
(* React state is the set of useState cells.  A handler is a closure of    *)
(* the render in which it was created: an asynchronous handler keeps the   *)
(* state values of the render that started it (its `env`) across every     *)
(* await, and a listener registered on a transport keeps the env of the    *)
(* connectWallet call that registered it.  Code between two awaits runs    *)
(* atomically (one UI thread); an await is a separate step, and awaits     *)
(* with no write between them are taken as one.                            *)
(***************************************************************************)
EXTENDS Integers, Sequences, FiniteSets, Bags, TLC

VARIABLES
  variant,              \* which page variant is running
  windowEthereum,       \* the global window.ethereum object (or none)
  provider,             \* useState cells of Home
  wcProvider,
  browserProvider,
  signer,
  address,
  chainId,
  selectedWallet,
  coinbaseWallet,
  eip6963Providers,
  isConnecting,
  isSwitchingChain,
  isSendingTransaction,
  listeners,            \* transport -> sequence of registered listeners
  ops,                  \* bag of suspended asynchronous handler calls
  timers,               \* pending setTimeout purge callbacks (variant 3)
  localStorage,         \* set of window.localStorage keys
  walletChain,          \* transport -> chain the wallet is on
  walletAcct,           \* transport -> first account the wallet exposes
  nwc,                  \* EthereumProvider / SDK provider objects created
  announces,            \* provider announcements still allowed
  connects,             \* Connect clicks still allowed
  clicks,               \* other user interactions still allowed
  events,               \* wallet-side events still allowed
  last                  \* what the last step did (label, toasts, finished call)

vars ==
  <<variant, windowEthereum, provider, wcProvider, browserProvider, signer,
    address, chainId, selectedWallet, coinbaseWallet, eip6963Providers,
    isConnecting, isSwitchingChain, isSendingTransaction, listeners, ops,
    timers, localStorage, walletChain, walletAcct, nwc, announces,
    connects, clicks, events, last>>

(***************************************************************************)
(* Bounds of the model.                                                    *)
(***************************************************************************)
MaxAnnounces ==
  1

MaxConnects ==
  1

MaxReconnects ==
  2

MaxDiscover ==
  4

MaxClicks ==
  1

MaxEvents ==
  1

MaxDepth ==
  2

(***************************************************************************)
(* JavaScript values.  A string is a sequence of one-character strings; a  *)
(* chain id value is a string or a number.                                 *)
(***************************************************************************)
NaN ==
  -1

NullChain ==
  -2

Str(s) ==
  [k |-> "str", s |-> s, n |-> 0]

Num(n) ==
  [k |-> "num", s |-> <<>>, n |-> n]

HexVal(c) ==
  CASE c = "0" -> 0 [] c = "1" -> 1 [] c = "2" -> 2 [] c = "3" -> 3
    [] c = "4" -> 4 [] c = "5" -> 5 [] c = "6" -> 6 [] c = "7" -> 7
    [] c = "8" -> 8 [] c = "9" -> 9
    [] c \in {"a", "A"} -> 10 [] c \in {"b", "B"} -> 11
    [] c \in {"c", "C"} -> 12 [] c \in {"d", "D"} -> 13
    [] c \in {"e", "E"} -> 14 [] c \in {"f", "F"} -> 15
    [] OTHER -> -1

HexChar(d) ==
  <<"0", "1", "2", "3", "4", "5", "6", "7", "8", "9",
    "a", "b", "c", "d", "e", "f">>[d + 1]

RECURSIVE ParseDigits(_, _, _)
ParseDigits(s, i, acc) ==
  IF i > Len(s) \/ HexVal(s[i]) < 0
    THEN acc
    ELSE ParseDigits(s, i + 1, acc * 16 + HexVal(s[i]))

\* parseInt(s, 16): an optional 0x / 0X prefix, then the longest run of
\* hexadecimal digits; NaN when there is none.
parseInt16(s) ==
  LET r == IF Len(s) >= 2 /\ s[1] = "0" /\ s[2] \in {"x", "X"}
             THEN SubSeq(s, 3, Len(s)) ELSE s
  IN  IF r = <<>> \/ HexVal(r[1]) < 0 THEN NaN ELSE ParseDigits(r, 1, 0)

sanitizeChainIdRadix10(v) ==
  IF v.k = "str"
    THEN LET r == IF Len(v.s) >= 2 /\ v.s[1] = "0" /\ v.s[2] \in {"x", "X"}
                    THEN <<"0">> ELSE v.s
             RECURSIVE Dec(_, _)
             Dec(i, acc) ==
               IF i > Len(r) \/ HexVal(r[i]) < 0 \/ HexVal(r[i]) > 9
                 THEN acc ELSE Dec(i + 1, acc * 10 + HexVal(r[i]))
         IN  IF r = <<>> \/ HexVal(r[1]) < 0 \/ HexVal(r[1]) > 9
               THEN NaN ELSE Dec(1, 0)
    ELSE v.n

\* typeof chainId === "string" ? parseInt(chainId, 16) : Number(chainId)
sanitizeChainId(v) ==
  IF v.k = "str" THEN parseInt16(v.s) ELSE v.n

RECURSIVE toString(_, _)
toString(n, radix) ==
  IF n < radix
    THEN <<HexChar(n)>>
    ELSE toString(n \div radix, radix) \o <<HexChar(n % radix)>>

\* `0x${targetChainId.toString(16)}`
formattedChainId(n) ==
  IF n = NaN THEN <<"0", "x", "N", "a", "N">> ELSE <<"0", "x">> \o toString(n, 16)

\* `eip155:${newChainId}`
eip155(n) ==
  <<"e", "i", "p", "1", "5", "5", ":">>
    \o (IF n = NaN THEN <<"N", "a", "N">> ELSE toString(n, 10))

\* a === b on chain ids (NaN equals nothing, null only null)
StrictEq(a, b) ==
  a # NaN /\ a = b

(***************************************************************************)
(* The static chain configuration (../config/chains).                      *)
(***************************************************************************)
ChainNames ==
  {"ethereum", "polygon"}

CHAIN_CONFIG ==
  [c \in ChainNames |->
     IF c = "ethereum"
       THEN [chainId |-> Str(<<"0", "x", "1">>), chainName |-> "Ethereum"]
       ELSE [chainId |-> Num(137), chainName |-> "Polygon"]]

WalletChains ==
  {1, 137}

(***************************************************************************)
(* Transports (EIP-1193 provider objects).                                 *)
(***************************************************************************)
T(k, i) ==
  [k |-> k, i |-> i]

NoT ==
  T("none", 0)

Injected ==
  {T("mm", 0), T("tw", 0), T("cbx", 0)}

Transports ==
  Injected \cup {T(k, i) : k \in {"wc", "sdk"}, i \in 1..MaxConnects + 1}

isTrust(t) ==
  t.k = "tw"

isCoinbaseWallet(t) ==
  t.k = "cbx"

\* pairing transports expose disconnect(); injected ones do not
HasDisconnect(t) ==
  t.k \in {"wc", "sdk"}

Accounts ==
  {"a1", "a2"}

(***************************************************************************)
(* Provider descriptors.                                                   *)
(***************************************************************************)
Info(uuid, rdns) ==
  [uuid |-> uuid, rdns |-> rdns]

NoInfo ==
  Info("", "null")

Desc(info, p) ==
  [info |-> info, provider |-> p]

\* rdns.includes(word) on the rdns strings of the model
Includes(rdns, word) ==
  CASE word = "walletconnect" -> rdns = "walletconnect"
    [] word = "trust" -> rdns = "com.trustwallet.app"
    [] word = "coinbase" -> rdns \in {"coinbasewallet", "com.coinbase.wallet"}
    [] OTHER -> FALSE

Announcements ==
  { Desc(Info("u1", "io.metamask"), T("mm", 0)),
    Desc(Info("u2", "com.trustwallet.app"), T("tw", 0)),
    Desc(Info("u1", "com.coinbase.wallet"), T("cbx", 0)) }

WalletConnectButton ==
  Desc(Info("", "walletconnect"), NoT)

CoinbaseButton ==
  Desc(Info("", "coinbasewallet"), NoT)

(***************************************************************************)
(* Session values.                                                         *)
(***************************************************************************)
Wrapper(t, by) ==
  [t |-> t, by |-> by]

NoWrapper ==
  Wrapper(NoT, "null")

Signer(t, acct, by) ==
  [t |-> t, acct |-> acct, by |-> by]

NoSigner ==
  Signer(NoT, "", "null")

NoSdk ==
  0

NoOut ==
  [ toasts |-> <<>>, native |-> <<>>, reqs |-> <<>>, fin |-> <<>>,
    unhandled |-> 0, arg |-> <<>> ]

\* the React state and everything a handler step may change
Cur ==
  [ provider |-> provider, wcProvider |-> wcProvider,
    browserProvider |-> browserProvider, signer |-> signer,
    address |-> address, chainId |-> chainId,
    selectedWallet |-> selectedWallet, coinbaseWallet |-> coinbaseWallet,
    isConnecting |-> isConnecting, isSwitchingChain |-> isSwitchingChain,
    isSendingTransaction |-> isSendingTransaction,
    listeners |-> listeners, ops |-> ops, timers |-> timers,
    localStorage |-> localStorage, walletChain |-> walletChain,
    nwc |-> nwc, out |-> NoOut ]

\* the values a closure created in state S captures
EnvOf(S) ==
  [ provider |-> S.provider, wcProvider |-> S.wcProvider,
    browserProvider |-> S.browserProvider, signer |-> S.signer,
    address |-> S.address, chainId |-> S.chainId,
    selectedWallet |-> S.selectedWallet, coinbaseWallet |-> S.coinbaseWallet ]

Commit(S, act) ==
  /\ provider' = S.provider
  /\ wcProvider' = S.wcProvider
  /\ browserProvider' = S.browserProvider
  /\ signer' = S.signer
  /\ address' = S.address
  /\ chainId' = S.chainId
  /\ selectedWallet' = S.selectedWallet
  /\ coinbaseWallet' = S.coinbaseWallet
  /\ isConnecting' = S.isConnecting
  /\ isSwitchingChain' = S.isSwitchingChain
  /\ isSendingTransaction' = S.isSendingTransaction
  /\ listeners' = S.listeners
  /\ ops' = S.ops
  /\ timers' = S.timers
  /\ localStorage' = S.localStorage
  /\ walletChain' = S.walletChain
  /\ nwc' = S.nwc
  /\ last' = [act |-> act] @@ S.out

InitBut ==
  /\ variant \in {1, 2, 3}
  /\ windowEthereum \in IF variant = 1 THEN {NoT}
                        ELSE {NoT, T("tw", 0)}
  /\ provider = NoT
  /\ wcProvider = NoT
  /\ browserProvider = NoWrapper
  /\ signer = NoSigner
  /\ address = ""
  /\ chainId = NullChain
  /\ selectedWallet = NoInfo
  /\ coinbaseWallet = NoSdk
  /\ eip6963Providers = <<>>
  /\ isConnecting = FALSE
  /\ isSwitchingChain = FALSE
  /\ isSendingTransaction = FALSE
  /\ listeners = [t \in Transports |-> <<>>]
  /\ ops = EmptyBag
  /\ timers = EmptyBag
  /\ localStorage = {"chakra-ui-color-mode"}
  /\ walletChain = [t \in Transports |-> 1]
  /\ walletAcct = [t \in Transports |-> "a1"]
  /\ nwc = 0
  /\ last = [act |-> "init"] @@ NoOut

Init ==
  /\ InitBut
  /\ announces = MaxAnnounces
  /\ connects = MaxConnects
  /\ clicks = MaxClicks
  /\ events = MaxEvents

(***************************************************************************)
(* Discover: the eip6963:announceProvider listener.                        *)
(***************************************************************************)
\* the announce listener without the uuid test
handleEip6963AnnounceAppends(prevProviders, detail) ==
  Append(prevProviders, detail)

handleEip6963Announce(prevProviders, detail) ==
  IF \E i \in 1..Len(prevProviders) : prevProviders[i].info.uuid = detail.info.uuid
    THEN prevProviders
    ELSE Append(prevProviders, detail)

\* Announcements change the registry only and commute with every other
\* step, so they are taken before the first interaction.
Announce(detail) ==
  /\ last.act \in {"init", "announce"}
  /\ announces > 0
  /\ announces' = announces - 1
  /\ eip6963Providers' = handleEip6963Announce(eip6963Providers, detail)
  /\ last' = [act |-> "announce"] @@ NoOut
  /\ UNCHANGED <<variant, windowEthereum, provider, wcProvider, browserProvider,
                 signer, address, chainId, selectedWallet, coinbaseWallet,
                 isConnecting, isSwitchingChain, isSendingTransaction,
                 listeners, ops, timers, localStorage, walletChain, walletAcct,
                 nwc, connects, clicks, events>>

(***************************************************************************)
(* Suspended calls.  A call is parked at an await with the closure values  *)
(* of the render that started it (env) and its locals.  reqs, errs, oks    *)
(* and wrote record what the call has done so far.                         *)
(***************************************************************************)
NoTx ==
  [chainId |-> NullChain, signer |-> NoSigner, via |-> NoWrapper, on |-> NullChain]

NoEnv ==
  [ provider |-> NoT, wcProvider |-> NoT, browserProvider |-> NoWrapper,
    signer |-> NoSigner, address |-> "", chainId |-> NullChain,
    selectedWallet |-> NoInfo, coinbaseWallet |-> NoSdk ]

Op(kind, pc, env, desc, t, chain) ==
  [ kind |-> kind, pc |-> pc, env |-> env, desc |-> desc, t |-> t,
    chain |-> chain, depth |-> 0, ret |-> "none", reqs |-> <<>>,
    errs |-> 0, oks |-> 0, wrote |-> FALSE, sg |-> NoSigner,
    w |-> NoWrapper, q |-> NullChain, tx |-> NoTx ]

NoOp ==
  Op("none", "none", NoEnv, Desc(NoInfo, NoT), NoT, "")

Park(S, o) ==
  [S EXCEPT !.ops = @ (+) SetToBag({o})]

Finish(S, o) ==
  [S EXCEPT !.out.fin = Append(@, o)]

showToast(S, title) ==
  [S EXCEPT !.out.toasts = Append(@, title)]

ErrorTitles ==
  { "Connection Error", "Chain Change Error", "Network Switch Failed",
    "Network Addition Failed", "Transaction Error", "Invalid Chain" }

(***************************************************************************)
(* Listeners on a transport: on(event, handler).                           *)
(***************************************************************************)
Listener(ev, h, env, op) ==
  [ev |-> ev, h |-> h, env |-> env, op |-> op]

RECURSIVE RemoveFirst(_, _)
RemoveFirst(seq, x) ==
  IF seq = <<>> THEN <<>>
  ELSE IF Head(seq) = x THEN Tail(seq)
  ELSE <<Head(seq)>> \o RemoveFirst(Tail(seq), x)

on(S, t, l) ==
  [S EXCEPT !.listeners[t] = Append(@, l)]

removeListener(S, t, l) ==
  [S EXCEPT !.listeners[t] = RemoveFirst(@, l)]

(***************************************************************************)
(* initializeProvider as run by the effect on [provider, initializeProvider]*)
(***************************************************************************)
\* setProvider(t); the effect `if (provider) initializeProvider()` runs in
\* the render that follows a change of provider.
setProvider(S, t) ==
  LET S1 == [S EXCEPT !.provider = t]
  IN  IF t # NoT /\ t # S.provider
        THEN Park(S1, Op("init", "i_net", [NoEnv EXCEPT !.provider = t],
                         Desc(NoInfo, NoT), t, ""))
        ELSE S1

(***************************************************************************)
(* disconnectWallet, handleAccountsChanged, handleChainChanged.            *)
(***************************************************************************)
ResetSession(S) ==
  [S EXCEPT !.provider = NoT, !.browserProvider = NoWrapper,
            !.signer = NoSigner, !.address = "", !.selectedWallet = NoInfo,
            !.chainId = NullChain, !.wcProvider = NoT,
            !.coinbaseWallet = IF variant = 3 THEN NoSdk ELSE @]

disconnectWallet(S, env) ==
  LET native ==
        (IF env.wcProvider # NoT /\ HasDisconnect(env.wcProvider)
           THEN <<env.wcProvider>> ELSE <<>>)
        \o (IF env.provider # NoT /\ HasDisconnect(env.provider)
              THEN <<env.provider>> ELSE <<>>)
      S1 == [S EXCEPT !.out.native = @ \o native]
      S2 == IF variant = 3 /\ env.coinbaseWallet # NoSdk
              THEN [S1 EXCEPT !.timers = @ (+) SetToBag({[provider |-> env.provider]})]
              ELSE S1
  IN  showToast(ResetSession(S2), "Wallet Disconnected")

\* handleAccountsChanged without the empty-list branch
handleAccountsChangedFirstOnly(S, env, accounts) ==
  IF Len(accounts) = 0 THEN S ELSE [S EXCEPT !.address = accounts[1]]

\* handleAccountsChanged taking the last entry of the list
handleAccountsChangedLast(S, env, accounts) ==
  IF Len(accounts) = 0
    THEN disconnectWallet(S, env)
    ELSE [S EXCEPT !.address = accounts[Len(accounts)]]

handleAccountsChanged(S, env, accounts) ==
  IF Len(accounts) = 0
    THEN disconnectWallet(S, env)
    ELSE [S EXCEPT !.address = accounts[1]]

\* up to the first await
handleChainChanged(S, env, payload) ==
  LET S1 == [S EXCEPT !.chainId = sanitizeChainId(payload)]
  IN  IF env.provider # NoT
        THEN Park([S1 EXCEPT !.browserProvider = Wrapper(env.provider, "chainChanged")],
                  [Op("cc", "cc_signer", env, Desc(NoInfo, NoT), env.provider, "")
                     EXCEPT !.w = Wrapper(env.provider, "chainChanged")])
        ELSE S1

\* the temporary handler without its removeListener call
chainChangedHandlerStays(S, l) ==
  IF BagIn(l.op, S.ops)
    THEN [S EXCEPT !.ops = (@ (-) SetToBag({l.op}))
                             (+) SetToBag({[l.op EXCEPT !.pc = "sw_settled"]})]
    ELSE S

\* the temporary handler of switchChain's confirmation wait
chainChangedHandler(S, l) ==
  LET target == IF l.op.env.wcProvider # NoT THEN l.op.env.wcProvider
                ELSE l.op.env.provider
      S1 == removeListener(S, target, l)
  IN  IF BagIn(l.op, S1.ops)
        THEN [S1 EXCEPT !.ops = (@ (-) SetToBag({l.op}))
                                  (+) SetToBag({[l.op EXCEPT !.pc = "sw_settled"]})]
        ELSE S1

\* emit(event, payload): the listeners registered when the emit starts run
\* in registration order
RECURSIVE Deliver(_, _, _, _)
Deliver(S, ls, ev, payload) ==
  IF ls = <<>> THEN S
  ELSE LET l == Head(ls)
           S1 == IF l.ev # ev THEN S
                 ELSE IF l.h = "handleAccountsChanged"
                   THEN handleAccountsChanged(S, l.env, payload)
                 ELSE IF l.h = "handleChainChanged"
                   THEN handleChainChanged(S, l.env, payload)
                 ELSE IF l.h = "chainChangedHandler"
                   THEN chainChangedHandler(S, l)
                 ELSE disconnectWallet(S, l.env)
       IN  Deliver(S1, Tail(ls), ev, payload)

emit(S, t, ev, payload) ==
  Deliver(S, S.listeners[t], ev, payload)

(***************************************************************************)
(* connectWallet.                                                          *)
(***************************************************************************)
Branch(d) ==
  IF Includes(d.info.rdns, "walletconnect") THEN "wc"
  ELSE IF variant >= 2 /\ Includes(d.info.rdns, "trust") THEN "trust"
  ELSE IF variant >= 2 /\ Includes(d.info.rdns, "coinbase") THEN "coinbase"
  ELSE "other"

\* the catch of connectWallet without its finally
ConnectCatchNoFinally(S, o) ==
  Finish(showToast(S, "Connection Error"),
         [o EXCEPT !.pc = "failed", !.errs = @ + 1])

\* catch + finally of connectWallet
ConnectCatch(S, o) ==
  Finish([showToast(S, "Connection Error") EXCEPT !.isConnecting = FALSE],
         [o EXCEPT !.pc = "failed", !.errs = @ + 1])

installListeners(S, t, env, withDisconnect) ==
  LET S1 == on(on(S, t, Listener("accountsChanged", "handleAccountsChanged", env, NoOp)),
               t, Listener("chainChanged", "handleChainChanged", env, NoOp))
  IN  IF withDisconnect
        THEN on(S1, t, Listener("disconnect", "disconnectWallet", env, NoOp))
        ELSE S1

\* connectWallet without the vendor tests on window.ethereum
connectWalletAnyVendor(S, d) ==
  LET o  == Op("connect", "c_auth", EnvOf(S), d, NoT, "")
      S1 == [S EXCEPT !.isConnecting = TRUE]
      b  == Branch(d)
  IN  CASE b = "wc" -> Park(S1, o)
        [] b \in {"trust", "coinbase"} -> Park(S1, [o EXCEPT !.t = windowEthereum])
        [] OTHER -> Park(S1, [o EXCEPT !.t = d.provider])

\* connectWallet up to its first await
connectWallet(S, d) ==
  LET o  == Op("connect", "c_auth", EnvOf(S), d, NoT, "")
      S1 == [S EXCEPT !.isConnecting = TRUE]
      b  == Branch(d)
  IN  CASE b = "wc" -> Park(S1, o)
        [] b = "trust" ->
             IF windowEthereum # NoT /\ isTrust(windowEthereum)
               THEN Park(S1, [o EXCEPT !.t = windowEthereum])
               ELSE ConnectCatch(S1, o)
        [] b = "coinbase" ->
             IF windowEthereum # NoT /\ isCoinbaseWallet(windowEthereum)
               THEN Park(S1, [o EXCEPT !.t = windowEthereum])
               ELSE IF variant = 2 THEN ConnectCatch(S1, o)
               ELSE Park([S1 EXCEPT !.coinbaseWallet = S1.nwc + 1, !.nwc = @ + 1],
                         [o EXCEPT !.t = T("sdk", S1.nwc + 1)])
        [] OTHER -> Park(S1, [o EXCEPT !.t = d.provider])

PairingKey(t) ==
  IF t.k = "sdk" THEN {"-walletlink:https://www.walletlink.org:session:id"}
  ELSE IF t.k = "wc" THEN {"wc@2:client:0.3//session"}
  ELSE {}

\* The authorization request resolved (for WalletConnect: EthereumProvider.init
\* and enable(), two awaits with no write between them, on a new object).
connectAuthResolved(S, o) ==
  LET b  == Branch(o.desc)
      t  == IF b = "wc" THEN T("wc", S.nwc + 1) ELSE o.t
      S0 == IF b = "wc" THEN [S EXCEPT !.nwc = @ + 1] ELSE S
      S1 == setProvider([S0 EXCEPT !.localStorage = @ \cup PairingKey(t)], t)
      S2 == IF b = "wc" THEN [S1 EXCEPT !.wcProvider = t] ELSE S1
      S3 == IF variant >= 2
              THEN installListeners(S2, t, o.env, variant = 3 /\ b = "wc")
              ELSE S2
  IN  Park(S3, [o EXCEPT !.pc = "c_signer", !.t = t, !.wrote = TRUE,
                         !.w = Wrapper(t, "connect")])

\* getSigner(), signer.getAddress() and getNetwork() resolved (three awaits
\* with no write between them) with account acct and chain id c (a bigint)
connectNetResolved(S, o, acct, c) ==
  LET sg == Signer(o.t, acct, "connect")
      S1 == [S EXCEPT !.browserProvider = o.w, !.signer = sg,
                      !.address = acct,
                      !.chainId = sanitizeChainId(Num(c)),
                      !.selectedWallet = o.desc.info]
      ok(X) == Finish([showToast(X, "Wallet Connected") EXCEPT !.isConnecting = FALSE],
                      [o EXCEPT !.pc = "done", !.oks = @ + 1, !.q = c, !.sg = sg])
  IN  IF variant = 1
        THEN IF Branch(o.desc) = "wc"
               \* newWcProvider is out of scope here: ReferenceError
               THEN ConnectCatch(S1, [o EXCEPT !.q = c])
               ELSE ok(installListeners(S1, o.desc.provider, o.env, FALSE))
        ELSE ok(S1)


(***************************************************************************)
(* switchChain and addNetwork.  A call is parked with the number of        *)
(* switchChain frames below the running one (depth: variants 1 and 2 call  *)
(* switchChain again from addNetwork) and with its caller (ret).           *)
(***************************************************************************)
Req(m, t, p) ==
  [m |-> m, t |-> t, p |-> p]

request(S, o, m, t, p) ==
  [S EXCEPT !.out.reqs = Append(@, Req(m, t, p))]

targetChainId(chainName) ==
  sanitizeChainId(CHAIN_CONFIG[chainName].chainId)

\* wcProvider || provider
activeProvider(env) ==
  IF env.wcProvider # NoT THEN env.wcProvider ELSE env.provider

\* A switchChain frame returns: to addNetwork in the frame below, which shows
\* "Network Added" and returns in turn; to sendTransaction; or to the UI.
RECURSIVE SwitchReturn(_, _)
SwitchReturn(S, o) ==
  IF o.depth > 0
    THEN SwitchReturn([showToast(S, "Network Added") EXCEPT !.isSwitchingChain = FALSE],
                      [o EXCEPT !.depth = @ - 1, !.oks = @ + 1])
  ELSE IF o.ret = "send"
    THEN Park(S, [o EXCEPT !.pc = "s_net"])
  ELSE Finish(S, [o EXCEPT !.pc = "done"])

\* the catch of switchChain without its notification
SwitchFailSilent(S, o, title) ==
  SwitchReturn([S EXCEPT !.isSwitchingChain = FALSE], [o EXCEPT !.errs = @ + 1])

\* catch (an error that is not the unknown-chain error) and finally
SwitchFail(S, o, title) ==
  SwitchReturn([showToast(S, title) EXCEPT !.isSwitchingChain = FALSE],
               [o EXCEPT !.errs = @ + 1])

\* switchChain without the early return for the current chain
switchChainAlwaysRequests(S, o) ==
  LET S1 == [S EXCEPT !.isSwitchingChain = TRUE]
      t == activeProvider(o.env)
  IN  IF t = NoT
        THEN SwitchFail(S1, o, "Network Switch Failed")
      ELSE Park(request(S1, o, "wallet_switchEthereumChain", t,
                        formattedChainId(targetChainId(o.chain))),
                [o EXCEPT !.pc = "sw_req", !.t = t,
                          !.reqs = Append(@, "wallet_switchEthereumChain")])

\* switchChain up to its first await
switchChain(S, o) ==
  LET S1 == [S EXCEPT !.isSwitchingChain = TRUE]
      target == targetChainId(o.chain)
      t == activeProvider(o.env)
  IN  IF StrictEq(o.env.chainId, target)
        THEN SwitchReturn([S1 EXCEPT !.isSwitchingChain = FALSE], o)
      ELSE IF t = NoT
        THEN SwitchFail(S1, o, "Network Switch Failed")
      ELSE Park(request(S1, o, "wallet_switchEthereumChain", t, formattedChainId(target)),
                [o EXCEPT !.pc = "sw_req", !.t = t,
                          !.reqs = Append(@, "wallet_switchEthereumChain")])

\* addNetwork up to its first await
addNetwork(S, o) ==
  LET t == activeProvider(o.env)
  IN  Park(request(S, o, "wallet_addEthereumChain", t,
                   formattedChainId(targetChainId(o.chain))),
           [o EXCEPT !.pc = "sw_add", !.t = t,
                     !.reqs = Append(@, "wallet_addEthereumChain")])

\* the confirmation wait: new Promise(resolve => ... on("chainChanged", ...))
awaitChainChanged(S, o) ==
  LET w == [o EXCEPT !.pc = "sw_wait"]
  IN  Park(on(S, activeProvider(o.env),
              Listener("chainChanged", "chainChangedHandler", o.env, w)), w)

\* wallet_switchEthereumChain resolved
switchRequestResolved(S, o) ==
  IF variant = 2 /\ o.env.provider # NoT /\ isTrust(o.env.provider)
    THEN Park([S EXCEPT !.chainId = targetChainId(o.chain),
                        !.browserProvider = Wrapper(o.env.provider, "switch")],
              [o EXCEPT !.pc = "sw_trust"])
    ELSE awaitChainChanged(S, o)

\* wallet_switchEthereumChain rejected; unknown: code 4902
switchRequestRejected(S, o, unknown) ==
  IF ~unknown THEN SwitchFail(S, o, "Network Switch Failed")
  ELSE IF variant = 3 /\ o.env.wcProvider # NoT
    THEN SwitchFail(S, o, "Network Switch Failed")
  ELSE addNetwork(S, o)

\* wallet_addEthereumChain resolved
addRequestResolved(S, o) ==
  IF variant = 3
    THEN awaitChainChanged(S, o)
    ELSE switchChain(S, [o EXCEPT !.depth = @ + 1])

addRequestRejected(S, o) ==
  SwitchFail(S, o, IF variant = 3 THEN "Network Switch Failed"
                   ELSE "Network Addition Failed")

\* after the wait: initializeProvider() up to getNetwork()
switchSettled(S, o) ==
  IF o.env.provider = NoT
    THEN SwitchFail(S, o, "Network Switch Failed")
    ELSE Park(S, [o EXCEPT !.pc = "sw_net"])

\* The continuations of the waits resolved in this step run as microtasks
\* right after it.
RECURSIVE DrainSettled(_)
DrainSettled(S) ==
  LET settled == {o \in BagToSet(S.ops) : o.pc = "sw_settled"}
  IN  IF settled = {} THEN S
      ELSE LET o == CHOOSE x \in settled : TRUE
           IN  DrainSettled(switchSettled([S EXCEPT !.ops = @ (-) SetToBag({o})], o))

\* initializeProvider's getNetwork() resolved with chain id c; then getSigner()
switchNetResolved(S, o, c) ==
  Park([S EXCEPT !.browserProvider = Wrapper(o.env.provider, "switch"),
                 !.chainId = sanitizeChainId(Num(c))],
       [o EXCEPT !.pc = "sw_signer", !.w = Wrapper(o.env.provider, "switch")])

\* getSigner() resolved; then getNetwork() once more
switchSignerResolved(S, o, acct) ==
  Park([S EXCEPT !.signer = Signer(o.env.provider, acct, "switch")],
       [o EXCEPT !.pc = "sw_log", !.sg = Signer(o.env.provider, acct, "switch")])

\* the second getNetwork() resolved with chain id c
switchLogResolved(S, o, c) ==
  LET newChainId == sanitizeChainId(Num(c))
      S1 == IF variant = 3 THEN [S EXCEPT !.chainId = newChainId] ELSE S
      S2 == IF variant = 3 /\ o.env.wcProvider # NoT
              THEN DrainSettled(emit(S1, o.env.wcProvider, "chainChanged",
                                     Str(eip155(newChainId))))
              ELSE S1
  IN  SwitchReturn([showToast(S2, "Network Switched") EXCEPT !.isSwitchingChain = FALSE],
                   [o EXCEPT !.oks = @ + 1, !.q = c])

\* variant 2, Trust: getSigner() resolved
switchTrustResolved(S, o, acct) ==
  SwitchReturn([showToast([S EXCEPT !.signer = Signer(o.env.provider, acct, "switch")],
                          "Network Switched") EXCEPT !.isSwitchingChain = FALSE],
               [o EXCEPT !.oks = @ + 1, !.sg = Signer(o.env.provider, acct, "switch")])

(***************************************************************************)
(* sendTransaction.                                                        *)
(***************************************************************************)
SendCatch(S, o) ==
  Finish([showToast(S, "Transaction Error") EXCEPT !.isSendingTransaction = FALSE],
         [o EXCEPT !.pc = "failed", !.errs = @ + 1])

\* signer.getAddress(), then browserProvider.getTransactionCount(address)
sendPrepare(S, o) ==
  IF o.env.browserProvider = NoWrapper
    THEN SendCatch(S, o)
    ELSE Park(S, [o EXCEPT !.pc = "s_nonce"])

\* sendTransaction without its test of signer
sendTransactionUnguarded(S, chainName) ==
  LET o == [Op("send", "s_nonce", EnvOf(S), Desc(NoInfo, NoT), NoT, chainName)
              EXCEPT !.ret = "send"]
      S1 == [S EXCEPT !.isSendingTransaction = TRUE]
  IN  IF ~StrictEq(S.chainId, targetChainId(chainName))
        THEN switchChain(S1, o)
      ELSE sendPrepare(S1, o)

\* sendTransaction up to its first await
sendTransaction(S, chainName) ==
  LET o == [Op("send", "s_nonce", EnvOf(S), Desc(NoInfo, NoT), NoT, chainName)
              EXCEPT !.ret = "send"]
      S1 == [S EXCEPT !.isSendingTransaction = TRUE]
  IN  IF S.signer = NoSigner THEN S
      ELSE IF ~StrictEq(S.chainId, targetChainId(chainName))
        THEN switchChain(S1, o)
      ELSE sendPrepare(S1, o)

\* The 2000 ms delay elapsed and initializeProvider's getNetwork() resolved
\* with chain id c (no write between the two); then getSigner().
sendNetResolved(S, o, c) ==
  Park([S EXCEPT !.browserProvider = Wrapper(o.env.provider, "send"),
                 !.chainId = sanitizeChainId(Num(c))],
       [o EXCEPT !.pc = "s_signer", !.w = Wrapper(o.env.provider, "send")])

sendSignerResolved(S, o, acct) ==
  Park([S EXCEPT !.signer = Signer(o.env.provider, acct, "send")],
       [o EXCEPT !.pc = "s_check", !.sg = Signer(o.env.provider, acct, "send")])

\* the re-check without its comparison
sendCheckResolvedUnchecked(S, o, c) ==
  sendPrepare(S, [o EXCEPT !.q = sanitizeChainId(Num(c))])

\* the re-check: getNetwork() resolved with chain id c
sendCheckResolved(S, o, c) ==
  LET currentChainId == sanitizeChainId(Num(c))
  IN  IF ~StrictEq(currentChainId, targetChainId(o.chain))
        THEN SendCatch(S, [o EXCEPT !.q = currentChainId])
        ELSE sendPrepare(S, [o EXCEPT !.q = currentChainId])

\* the transaction object and signer.sendTransaction(transaction)
sendSubmit(S, o) ==
  Park(request(S, o, "eth_sendTransaction", o.env.signer.t,
               formattedChainId(targetChainId(o.chain))),
       [o EXCEPT !.pc = "s_submit",
                 !.reqs = Append(@, "eth_sendTransaction"),
                 !.tx = [chainId |-> targetChainId(o.chain),
                         signer |-> o.env.signer,
                         via |-> o.env.browserProvider,
                         on |-> NullChain]])

\* The wallet accepted the transaction while on chain c and tx.wait()
\* resolved (no write between the two).
sendSubmitResolved(S, o, c) ==
  Finish([showToast(S, "Transaction Sent") EXCEPT !.isSendingTransaction = FALSE],
         [o EXCEPT !.pc = "done", !.oks = @ + 1, !.tx.on = c])

(***************************************************************************)
(* The delayed purge of disconnectWallet (variant 3).                      *)
(***************************************************************************)
\* key.includes('__WalletLink__') || key.includes('-coinbaseWallet:') ||
\* key.includes('-walletlink:')
IsPairingKey(key) ==
  key \in { "-walletlink:https://www.walletlink.org:session:id",
            "-coinbaseWallet:version", "__WalletLink__" }

\* provider?.disconnect() throws when the provider has no disconnect method,
\* and the keys are then left in place
purge(S, tm) ==
  LET S0 == [S EXCEPT !.timers = @ (-) SetToBag({tm})]
  IN  IF tm.provider # NoT /\ ~HasDisconnect(tm.provider)
        THEN [S0 EXCEPT !.out.unhandled = @ + 1]
        ELSE [S0 EXCEPT !.out.native = IF tm.provider # NoT
                                         THEN Append(@, tm.provider) ELSE @,
                        !.localStorage = {k \in @ : ~IsPairingKey(k)}]

(***************************************************************************)
(* Actions.                                                                *)
(***************************************************************************)
Static ==
  UNCHANGED <<variant, windowEthereum, eip6963Providers>>

ConnectBudget ==
  /\ connects > 0
  /\ connects' = connects - 1
  /\ UNCHANGED <<announces, clicks, events>>

Click ==
  /\ clicks > 0
  /\ clicks' = clicks - 1
  /\ UNCHANGED <<announces, connects, events>>

WalletEvent ==
  /\ events > 0
  /\ events' = events - 1
  /\ UNCHANGED <<announces, connects, clicks>>

Continue ==
  Static /\ UNCHANGED <<walletAcct, announces, connects, clicks, events>>

Registry ==
  {eip6963Providers[i] : i \in 1..Len(eip6963Providers)}

\* the connect controls rendered while no wallet is selected
ConnectControls ==
  IF selectedWallet # NoInfo THEN {}
  ELSE Registry
       \cup (IF variant = 3 \/ ~isConnecting THEN {WalletConnectButton} ELSE {})
       \cup (IF variant = 3 THEN {CoinbaseButton} ELSE {})

With(S, arg) ==
  [S EXCEPT !.out.arg = arg]

ConnectClick(d) ==
  /\ d \in ConnectControls
  /\ ConnectBudget
  /\ Commit(connectWallet(With(Cur, d), d), "connect")
  /\ Static /\ UNCHANGED walletAcct

Parked(o, kinds, pc) ==
  /\ BagIn(o, ops)
  /\ o.kind \in kinds
  /\ o.pc = pc

Resume(o) ==
  [Cur EXCEPT !.ops = @ (-) SetToBag({o})]

ConnectAuthDone(o, ok) ==
  /\ Parked(o, {"connect"}, "c_auth")
  /\ Commit(IF ok THEN connectAuthResolved(Resume(o), o)
                  ELSE ConnectCatch(Resume(o), o), "connect.auth")
  /\ Continue

ConnectNetDone(o, ok) ==
  /\ Parked(o, {"connect"}, "c_signer")
  /\ Commit(IF ok THEN connectNetResolved(Resume(o), o, walletAcct[o.t], walletChain[o.t])
                  ELSE ConnectCatch(Resume(o), o), "connect.net")
  /\ Continue

\* the effect's initializeProvider: getNetwork() resolved or rejected
initializeProviderResolved(S, o, c) ==
  Finish([S EXCEPT !.browserProvider = Wrapper(o.t, "init"),
                   !.chainId = sanitizeChainId(Num(c))],
         [o EXCEPT !.pc = "done", !.q = c])

InitNetDone(o, ok) ==
  /\ Parked(o, {"init"}, "i_net")
  /\ Commit(IF ok THEN initializeProviderResolved(Resume(o), o, walletChain[o.t])
                  ELSE Finish([Resume(o) EXCEPT !.out.unhandled = @ + 1],
                              [o EXCEPT !.pc = "failed"]), "effect.init")
  /\ Continue

DisconnectClick ==
  /\ selectedWallet # NoInfo
  /\ Click
  /\ Commit(disconnectWallet(Cur, EnvOf(Cur)), "disconnect")
  /\ Static /\ UNCHANGED walletAcct

\* an emit with no listener for the event runs no code
Listens(t, ev) ==
  \E i \in 1..Len(listeners[t]) : listeners[t][i].ev = ev

AccountLists ==
  {<<>>, <<"a2", "a1">>}

EmitAccountsChanged(t, accounts) ==
  /\ Listens(t, "accountsChanged")
  /\ WalletEvent
  /\ walletAcct' = IF accounts = <<>> THEN walletAcct
                   ELSE [walletAcct EXCEPT ![t] = accounts[1]]
  /\ Commit(emit(With(Cur, <<t, accounts>>), t, "accountsChanged", accounts),
            "accountsChanged")
  /\ Static

ChainPayloads ==
  {Str(<<"0", "x", "8", "9">>), Num(137)}

EmitChainChanged(t, payload) ==
  /\ Listens(t, "chainChanged")
  /\ WalletEvent
  /\ Commit(DrainSettled(emit(With(Cur, <<t, payload>>), t, "chainChanged", payload)),
            "chainChanged")
  /\ Static /\ UNCHANGED walletAcct

EmitDisconnect(t) ==
  /\ Listens(t, "disconnect")
  /\ WalletEvent
  /\ Commit(emit(With(Cur, <<t>>), t, "disconnect", <<>>), "transport.disconnect")
  /\ Static /\ UNCHANGED walletAcct

\* the user selects another chain in the wallet
WalletChainChange(t, c) ==
  /\ t \in {provider, wcProvider}
  /\ walletChain[t] # c
  /\ WalletEvent
  /\ Commit([With(Cur, <<t, c>>) EXCEPT !.walletChain[t] = c], "wallet.chain")
  /\ Static /\ UNCHANGED walletAcct

\* handleChainChanged after getSigner() / getAddress()
chainChangedSignerResolved(S, o, acct) ==
  Finish([S EXCEPT !.address = acct,
                   !.signer = Signer(o.t, acct, "chainChanged")],
         [o EXCEPT !.pc = "done", !.sg = Signer(o.t, acct, "chainChanged")])

\* a catch that also drops the signer and the address
chainChangedSignerRejectedClears(S, o) ==
  Finish(showToast([S EXCEPT !.signer = NoSigner, !.address = ""],
                   "Chain Change Error"),
         [o EXCEPT !.pc = "failed", !.errs = @ + 1])

chainChangedSignerRejected(S, o) ==
  Finish(showToast(S, "Chain Change Error"),
         [o EXCEPT !.pc = "failed", !.errs = @ + 1])

ChainChangedSignerDone(o, ok) ==
  /\ Parked(o, {"cc"}, "cc_signer")
  /\ Commit(IF ok THEN chainChangedSignerResolved(Resume(o), o, walletAcct[o.t])
                  ELSE chainChangedSignerRejected(Resume(o), o), "chainChanged.signer")
  /\ Continue

SwitchClick(chainName) ==
  /\ ~isSwitchingChain
  /\ Click
  /\ Commit(switchChain(With(Cur, chainName),
                        Op("switch", "sw_req", EnvOf(Cur), Desc(NoInfo, NoT), NoT, chainName)),
            "switch")
  /\ Static /\ UNCHANGED walletAcct

Calls ==
  {"switch", "send"}

\* the wallet answers wallet_switchEthereumChain: it moves to the chain the
\* parameter denotes, or rejects (unknown chain 4902, or another error)
SwitchReqDone(o, answer) ==
  /\ Parked(o, Calls, "sw_req")
  /\ Commit(IF answer = "ok"
              THEN switchRequestResolved(
                     [Resume(o) EXCEPT !.walletChain[o.t] =
                        parseInt16(formattedChainId(targetChainId(o.chain)))], o)
              ELSE switchRequestRejected(Resume(o), o, answer = "4902"),
            "switch.request")
  /\ Continue

AddReqDone(o, ok) ==
  /\ Parked(o, Calls, "sw_add")
  /\ ok /\ variant # 3 => o.depth < MaxDepth
  /\ Commit(IF ok THEN addRequestResolved(Resume(o), o)
                  ELSE addRequestRejected(Resume(o), o), "switch.add")
  /\ Continue

\* variant 3: the 5000 ms timer of the confirmation wait
SwitchWaitTimeout(o) ==
  /\ variant = 3
  /\ Parked(o, Calls, "sw_wait")
  /\ Commit(switchSettled(
              removeListener(Resume(o), activeProvider(o.env),
                             Listener("chainChanged", "chainChangedHandler", o.env, o)),
              o), "switch.timeout")
  /\ Continue

SwitchNetDone(o, ok) ==
  /\ Parked(o, Calls, "sw_net")
  /\ Commit(IF ok THEN switchNetResolved(Resume(o), o, walletChain[o.env.provider])
                  ELSE SwitchFail(Resume(o), o, "Network Switch Failed"), "switch.net")
  /\ Continue

SwitchSignerDone(o, ok) ==
  /\ Parked(o, Calls, "sw_signer")
  /\ Commit(IF ok THEN switchSignerResolved(Resume(o), o, walletAcct[o.env.provider])
                  ELSE SwitchFail(Resume(o), o, "Network Switch Failed"), "switch.signer")
  /\ Continue

SwitchLogDone(o, ok) ==
  /\ Parked(o, Calls, "sw_log")
  /\ Commit(IF ok THEN switchLogResolved(Resume(o), o, walletChain[o.env.provider])
                  ELSE SwitchFail(Resume(o), o, "Network Switch Failed"), "switch.done")
  /\ Continue

SwitchTrustDone(o, ok) ==
  /\ Parked(o, Calls, "sw_trust")
  /\ Commit(IF ok THEN switchTrustResolved(Resume(o), o, walletAcct[o.env.provider])
                  ELSE SwitchFail(Resume(o), o, "Network Switch Failed"), "switch.trust")
  /\ Continue

SendClick(chainName) ==
  /\ ~isSendingTransaction
  /\ Click
  /\ Commit(sendTransaction(With(Cur, chainName), chainName), "send")
  /\ Static /\ UNCHANGED walletAcct

\* a null initializeProvider() result makes getSigner() throw a TypeError
SendNetDone(o, ok) ==
  /\ Parked(o, {"send"}, "s_net")
  /\ o.env.provider = NoT => ~ok
  /\ Commit(IF ok THEN sendNetResolved(Resume(o), o, walletChain[o.env.provider])
                  ELSE SendCatch(Resume(o), o), "send.net")
  /\ Continue

SendSignerDone(o, ok) ==
  /\ Parked(o, {"send"}, "s_signer")
  /\ Commit(IF ok THEN sendSignerResolved(Resume(o), o, walletAcct[o.env.provider])
                  ELSE SendCatch(Resume(o), o), "send.signer")
  /\ Continue

SendCheckDone(o, ok) ==
  /\ Parked(o, {"send"}, "s_check")
  /\ Commit(IF ok THEN sendCheckResolved(Resume(o), o, walletChain[o.env.provider])
                  ELSE SendCatch(Resume(o), o), "send.check")
  /\ Continue

\* getTransactionCount (and, in variants 1 and 2, estimateGas and getFeeData)
\* resolved: queries with no write between them
SendNonceDone(o, ok) ==
  /\ Parked(o, {"send"}, "s_nonce")
  /\ Commit(IF ok THEN sendSubmit(Resume(o), o)
                  ELSE SendCatch(Resume(o), o), "send.nonce")
  /\ Continue

SendSubmitDone(o, ok) ==
  /\ Parked(o, {"send"}, "s_submit")
  /\ Commit(IF ok THEN sendSubmitResolved(Resume(o), o, walletChain[o.env.signer.t])
                  ELSE SendCatch(Resume(o), o), "send.submit")
  /\ Continue

PurgeTimerFires(tm) ==
  /\ BagIn(tm, timers)
  /\ Commit(purge(Cur, tm), "purge")
  /\ Continue

InFlight ==
  BagToSet(ops)

Answers ==
  {"ok", "4902", "rejected"}

NextDiscover ==
  \E d \in Announcements : Announce(d)

NextConnect ==
  \/ \E d \in Announcements \cup {WalletConnectButton, CoinbaseButton} : ConnectClick(d)
  \/ \E o \in InFlight, ok \in BOOLEAN : ConnectAuthDone(o, ok)
  \/ \E o \in InFlight, ok \in BOOLEAN : ConnectNetDone(o, ok)
  \/ \E o \in InFlight, ok \in BOOLEAN : InitNetDone(o, ok)

NextSession ==
  \/ DisconnectClick
  \/ \E t \in Transports, a \in AccountLists : EmitAccountsChanged(t, a)
  \/ \E t \in Transports, p \in ChainPayloads : EmitChainChanged(t, p)
  \/ \E t \in Transports : EmitDisconnect(t)
  \/ \E tm \in BagToSet(timers) : PurgeTimerFires(tm)

\* The getSigner() of handleChainChanged.  The handler is a closure of the
\* connectWallet call that installed it, so it gets this far only when that
\* call started with a provider already set, i.e. on a second Connect.
NextRederive ==
  \E o \in InFlight, ok \in BOOLEAN : ChainChangedSignerDone(o, ok)

NextSwitch ==
  \/ \E c \in ChainNames : SwitchClick(c)
  \/ \E o \in InFlight, a \in Answers : SwitchReqDone(o, a)
  \/ \E o \in InFlight, ok \in BOOLEAN : AddReqDone(o, ok)
  \/ \E o \in InFlight : SwitchWaitTimeout(o)
  \/ \E o \in InFlight, ok \in BOOLEAN : SwitchNetDone(o, ok)
  \/ \E o \in InFlight, ok \in BOOLEAN : SwitchSignerDone(o, ok)
  \/ \E o \in InFlight, ok \in BOOLEAN : SwitchLogDone(o, ok)
  \/ \E o \in InFlight, ok \in BOOLEAN : SwitchTrustDone(o, ok)
  \/ \E t \in Transports, c \in WalletChains : WalletChainChange(t, c)

NextSend ==
  \/ \E c \in ChainNames : SendClick(c)
  \/ \E o \in InFlight, ok \in BOOLEAN : SendNetDone(o, ok)
  \/ \E o \in InFlight, ok \in BOOLEAN : SendSignerDone(o, ok)
  \/ \E o \in InFlight, ok \in BOOLEAN : SendCheckDone(o, ok)
  \/ \E o \in InFlight, ok \in BOOLEAN : SendNonceDone(o, ok)
  \/ \E o \in InFlight, ok \in BOOLEAN : SendSubmitDone(o, ok)

\* One Connect, one further click and one wallet notification, in any order
\* and with every interleaving of their continuations.
Next ==
  NextDiscover \/ NextConnect \/ NextSession \/ NextSwitch \/ NextSend

Spec ==
  Init /\ [][Next]_vars

\* Discovery alone: MaxDiscover announcements.
InitDiscover ==
  /\ InitBut
  /\ announces = MaxDiscover
  /\ connects = 0
  /\ clicks = 0
  /\ events = 0

SpecDiscover ==
  InitDiscover /\ [][NextDiscover]_vars

\* Two Connect clicks, the second possibly while the first is in flight or
\* after it established a Session, and one wallet notification.
InitReconnect ==
  /\ InitBut
  /\ announces = MaxAnnounces
  /\ connects = MaxReconnects
  /\ clicks = 0
  /\ events = MaxEvents

NextReconnect ==
  \/ NextDiscover
  \/ NextConnect
  \/ \E t \in Transports, a \in AccountLists : EmitAccountsChanged(t, a)
  \/ \E t \in Transports, p \in ChainPayloads : EmitChainChanged(t, p)
  \/ NextRederive

SpecReconnect ==
  InitReconnect /\ [][NextReconnect]_vars

\* Connect, Disconnect and Connect again, one after the other: a Connect
\* button is clicked only while no connectWallet call is in flight, and the
\* purge timer fires at any later point.
InitPurge ==
  /\ InitBut
  /\ announces = MaxAnnounces
  /\ connects = MaxReconnects
  /\ clicks = MaxClicks
  /\ events = 0

NextPurge ==
  \/ NextDiscover
  \/ \E d \in Announcements \cup {WalletConnectButton, CoinbaseButton} :
       /\ \A o \in InFlight : o.kind # "connect"
       /\ ConnectClick(d)
  \/ \E o \in InFlight, ok \in BOOLEAN : ConnectAuthDone(o, ok)
  \/ \E o \in InFlight, ok \in BOOLEAN : ConnectNetDone(o, ok)
  \/ \E o \in InFlight, ok \in BOOLEAN : InitNetDone(o, ok)
  \/ DisconnectClick
  \/ \E tm \in BagToSet(timers) : PurgeTimerFires(tm)

SpecPurge ==
  InitPurge /\ [][NextPurge]_vars

(***************************************************************************)
(* Properties.                                                             *)
(***************************************************************************)
Range(seq) ==
  {seq[i] : i \in 1..Len(seq)}

SessionAbsent ==
  /\ provider = NoT
  /\ wcProvider = NoT
  /\ browserProvider = NoWrapper
  /\ signer = NoSigner
  /\ address = ""
  /\ chainId = NullChain
  /\ selectedWallet = NoInfo

SessionFields ==
  <<provider, wcProvider, browserProvider, signer, address, chainId,
    selectedWallet>>

\* the transports connectWallet may resolve descriptor d to
ResolvedTransports(d) ==
  CASE Branch(d) = "wc" -> {t \in Transports : t.k = "wc"}
    [] Branch(d) = "trust" -> {windowEthereum}
    [] Branch(d) = "coinbase" -> {windowEthereum} \cup {t \in Transports : t.k = "sdk"}
    [] OTHER -> {d.provider}

Describes(info, t) ==
  \E d \in Announcements \cup {WalletConnectButton, CoinbaseButton} :
     d.info = info /\ t \in ResolvedTransports(d)

\* C1: at every reachable state the Session, when present, is internally
\* consistent: the signer and the selected descriptor belong to the stored
\* transport handle, and the transport switchChain and addNetwork send their
\* requests to (wcProvider || provider) is that same transport, under any
\* interleaving of Connect calls on different providers.
C1_SessionConsistent ==
  selectedWallet # NoInfo /\ signer # NoSigner /\ provider # NoT =>
    /\ signer.t = provider
    /\ Describes(selectedWallet, provider)
    /\ activeProvider(Cur) = provider

\* C2: after Disconnect returns the Session is absent and no listener of
\* the controller is registered on any transport.
C2_DisconnectClearsAll ==
  last.act = "disconnect" =>
    /\ SessionAbsent
    /\ \A t \in Transports : listeners[t] = <<>>

\* C3: handleAccountsChanged with an empty account list leaves every
\* Session field reset, whatever the state the notification arrives in.
C3_EmptyAccountsClearSession ==
  last.act = "accountsChanged" /\ last.arg[2] = <<>> => SessionAbsent

\* an empty account list arrived while a switchChain call was waiting
C3_Witness ==
  /\ last.act = "accountsChanged"
  /\ last.arg[2] = <<>>
  /\ last.toasts = <<"Wallet Disconnected">>
  /\ isSwitchingChain
  /\ \E o \in InFlight : o.kind = "switch" /\ o.env.signer # NoSigner

\* the calls parked at an await and those that returned in the last step
Calling ==
  InFlight \cup Range(last.fin)

NeedsSwitch(o) ==
  o.kind = "send" /\ ~StrictEq(o.env.chainId, targetChainId(o.chain))

\* C4: a sendTransaction started on another chain than its target issues the
\* switch request before it builds the transaction, builds one only when the
\* chain id queried after the switch equals the target, and otherwise ends
\* with an error and no transaction; every built transaction carries the
\* target chain id.
C4_SendSwitchesFirst ==
  \A o \in Calling : o.kind = "send" =>
    LET target == targetChainId(o.chain)
    IN  /\ o.tx # NoTx => o.tx.chainId = target
        /\ NeedsSwitch(o) /\ o.tx # NoTx =>
              /\ o.reqs[1] = "wallet_switchEthereumChain"
              /\ o.reqs[Len(o.reqs)] = "eth_sendTransaction"
              /\ o.q = target
        /\ NeedsSwitch(o) /\ o \in Range(last.fin) /\ o.q # target =>
              /\ o.tx = NoTx
              /\ o.pc = "failed"
              /\ last.toasts[Len(last.toasts)] = "Transaction Error"

\* a send that had to switch was submitted on the target chain
C4_Witness ==
  \E o \in Range(last.fin) :
     /\ NeedsSwitch(o)
     /\ o.pc = "done"
     /\ o.tx.on = targetChainId(o.chain)
     /\ o.env.chainId # NullChain

C5_Step(o) ==
  LET p == formattedChainId(targetChainId(o.chain))
  IN  /\ SwitchReqDone(o, "4902") /\ o.reqs = <<"wallet_switchEthereumChain">>
            => last'.reqs = <<Req("wallet_addEthereumChain", o.t, p)>>
      /\ AddReqDone(o, TRUE)
            /\ o.reqs = <<"wallet_switchEthereumChain", "wallet_addEthereumChain">>
            => last'.reqs = <<Req("wallet_switchEthereumChain", o.t, p)>>

\* C5: when the first wallet_switchEthereumChain request of a call is
\* answered with the unknown-chain error 4902, on any transport, the call
\* issues one wallet_addEthereumChain request and, once that succeeds, a
\* second wallet_switchEthereumChain request for the same chain.
C5_SwitchAddSwitch ==
  [][\A o \in InFlight : C5_Step(o)]_vars

\* C6: switchChain(name) with the target of name equal to the current
\* chainId issues no request, registers no listener, shows no toast, parks
\* no call, leaves every Session field as it was and isSwitchingChain false.
C6_SwitchToCurrentIsNoOp ==
  [][\A c \in ChainNames :
       last'.act = "switch" /\ last'.arg = c
         /\ StrictEq(chainId, targetChainId(c)) =>
           /\ last'.reqs = <<>>
           /\ last'.toasts = <<>>
           /\ listeners' = listeners
           /\ ops' = ops
           /\ SessionFields' = SessionFields
           /\ isSwitchingChain' = FALSE]_vars

\* the Switch button of the current chain was clicked on a connected Session
C6_Witness ==
  /\ last.act = "switch"
  /\ selectedWallet # NoInfo
  /\ StrictEq(chainId, targetChainId(last.arg))
  /\ last.reqs = <<>>
  /\ Len(last.fin) = 1

\* C7: the registry holds at most one entry per uuid; an announcement with
\* a registered uuid leaves the registry unchanged and one with a new uuid
\* appends one entry at the end, keeping the entries before it in place.
C7_RegistryDedup ==
  [][\A d \in Announcements : Announce(d) =>
       LET old == eip6963Providers
           new == eip6963Providers'
       IN  /\ (\E e \in Range(old) : e.info.uuid = d.info.uuid) => new = old
           /\ (\A e \in Range(old) : e.info.uuid # d.info.uuid) =>
                 /\ Len(new) = Len(old) + 1
                 /\ SubSeq(new, 1, Len(old)) = old
                 /\ new[Len(new)] = d
           /\ \A i, j \in 1..Len(new) :
                 new[i].info.uuid = new[j].info.uuid => i = j]_vars

\* two entries are registered and an announcement of a registered uuid has
\* been dropped
C7_Witness ==
  /\ Len(eip6963Providers) = 2
  /\ MaxDiscover - announces > 2

\* C8: when the authorization request of a Connect started from the
\* Disconnected state is rejected, that call has written no Session field
\* and the step writes none (an absent Session stays absent), exactly one
\* Connection Error is shown, no listener is installed and isConnecting is
\* false.
C8_AuthRejected ==
  [][\A o \in InFlight :
       ConnectAuthDone(o, FALSE) /\ o.env = NoEnv =>
         /\ ~o.wrote
         /\ SessionFields' = SessionFields
         /\ SessionAbsent => SessionAbsent'
         /\ last'.toasts = <<"Connection Error">>
         /\ o.errs = 0
         /\ listeners' = listeners
         /\ isConnecting' = FALSE]_vars

\* an authorization request was rejected and the Session is absent
C8_Witness ==
  /\ last.act = "connect.auth"
  /\ Len(last.fin) = 1
  /\ last.fin[1].pc = "failed"
  /\ last.fin[1].env = NoEnv
  /\ SessionAbsent
  /\ ~isConnecting

\* C9: a Connect that fails at any step has written no Session field: all
\* seven have the value they had when the call started.
C9_FailedConnectWritesNothing ==
  \A o \in Range(last.fin) :
     o.kind = "connect" /\ o.pc = "failed" =>
       /\ ~o.wrote
       /\ SessionFields = <<o.env.provider, o.env.wcProvider,
                            o.env.browserProvider, o.env.signer,
                            o.env.address, o.env.chainId,
                            o.env.selectedWallet>>

\* the integer a chain id notification denotes
RECURSIVE HexValue(_)
HexValue(digits) ==
  IF digits = <<>> THEN 0
  ELSE 16 * HexValue(SubSeq(digits, 1, Len(digits) - 1))
         + HexVal(digits[Len(digits)])

Denotes(payload) ==
  IF payload.k = "str"
    THEN HexValue(SubSeq(payload.s, 3, Len(payload.s)))
    ELSE payload.n

\* C10: handleChainChanged(c) sets chainId to the integer c denotes: the
\* hexadecimal value of a 0x-prefixed string ("0x89" gives 137), the same
\* number for a number.
C10_ChainChangedNormalizes ==
  [][\A t \in Transports, p \in ChainPayloads :
       /\ last'.act = "chainChanged"
       /\ last'.arg = <<t, p>>
       /\ \E l \in Range(listeners[t]) : l.h = "handleChainChanged"
       => chainId' = Denotes(p)]_vars

\* the notification "0x89" reached the handler of a connected Session
C10_Witness ==
  /\ last.act = "chainChanged"
  /\ last.arg[2] = Str(<<"0", "x", "8", "9">>)
  /\ chainId = 137
  /\ selectedWallet # NoInfo

\* C11: the confirmation wait of an accepted switch request ends at the
\* first of the chainChanged notification or a bounded timeout: a call
\* parked in the wait can always leave it without any notification from the
\* transport.
C11_WaitEndsWithoutNotification ==
  \A o \in InFlight : o.pc = "sw_wait" => ENABLED SwitchWaitTimeout(o)

\* C12: a switchChain call whose request was accepted never writes chainId
\* without a network query: the step that receives the acceptance leaves
\* chainId alone, and a call that reports success has queried the chain id.
C12_ChainIdFromQuery ==
  [][\A o \in InFlight :
       /\ SwitchReqDone(o, "ok") => chainId' = chainId
       /\ \A ok \in BOOLEAN :
            (SwitchLogDone(o, ok) \/ SwitchTrustDone(o, ok))
              /\ "Network Switched" \in Range(last'.toasts)
            => \E f \in Range(last'.fin) \cup BagToSet(ops') :
                  f.q # NullChain /\ f.chain = o.chain]_vars

ConnectsInFlight ==
  BagCardinality([o \in {x \in InFlight : x.kind = "connect"} |-> CopiesIn(o, ops)])

\* C13: at most one connectWallet call is in flight at any time, and no
\* Connect click is possible while isConnecting is true.
C13_OneConnectInFlight ==
  /\ ConnectsInFlight <= 1
  /\ isConnecting => ConnectControls = {}

\* C14: switchChain called with no Session and no transport issues no
\* request, shows exactly one error notification, parks nothing, leaves the
\* Session absent and isSwitchingChain false.
C14_SwitchWithoutProvider ==
  [][last'.act = "switch" /\ SessionAbsent =>
       /\ last'.reqs = <<>>
       /\ last'.toasts = <<"Network Switch Failed">>
       /\ ops' = ops
       /\ listeners' = listeners
       /\ SessionAbsent'
       /\ isSwitchingChain' = FALSE]_vars

\* the Switch button was clicked with no Session
C14_Witness ==
  /\ last.act = "switch"
  /\ SessionAbsent
  /\ last.toasts = <<"Network Switch Failed">>
  /\ Len(last.fin) = 1
  /\ last.fin[1].env = NoEnv

\* C15: sendTransaction called while signer is null does nothing: no request,
\* no notification, nothing parked, and isSendingTransaction and every
\* Session field keep their values.
C15_SendWithoutSigner ==
  [][last'.act = "send" /\ signer = NoSigner =>
       /\ last'.reqs = <<>>
       /\ last'.native = <<>>
       /\ last'.toasts = <<>>
       /\ last'.unhandled = 0
       /\ ops' = ops
       /\ timers' = timers
       /\ listeners' = listeners
       /\ isSendingTransaction' = isSendingTransaction
       /\ isSwitchingChain' = isSwitchingChain
       /\ SessionFields' = SessionFields]_vars

\* the Send button was clicked while signer was null
C15_Witness ==
  /\ last.act = "send"
  /\ signer = NoSigner
  /\ last.fin = <<>>
  /\ ops = EmptyBag
  /\ ~isSendingTransaction

\* C16: when getSigner() / getAddress() fails inside handleChainChanged, the
\* step reports exactly "Chain Change Error" and leaves signer, address, the
\* transport handles and the selected descriptor as they were; the opening
\* part of the handler does not touch them either.
C16_ChainChangeErrorKeepsSession ==
  [][/\ \A o \in InFlight :
          ChainChangedSignerDone(o, FALSE) =>
            /\ last'.toasts = <<"Chain Change Error">>
            /\ <<signer, address, provider, wcProvider, selectedWallet>>'
                 = <<signer, address, provider, wcProvider, selectedWallet>>
            /\ chainId' = chainId
            /\ browserProvider' = browserProvider
     /\ last'.act = "chainChanged" =>
            <<signer, address, provider, wcProvider, selectedWallet>>'
              = <<signer, address, provider, wcProvider, selectedWallet>>]_vars

\* a re-derivation failed while a Session with a signer was in place
C16_Witness ==
  /\ last.act = "chainChanged.signer"
  /\ last.toasts = <<"Chain Change Error">>
  /\ Len(last.fin) = 1
  /\ last.fin[1].pc = "failed"
  /\ signer # NoSigner
  /\ address # ""
  /\ provider # NoT
  /\ selectedWallet # NoInfo

\* C17: an accountsChanged notification with a non-empty list sets address to
\* the first entry whatever follows it, issues no request, shows nothing,
\* and changes no other Session field, so a present Session stays present.
C17_AccountsChangedSetsFirst ==
  [][last'.act = "accountsChanged" /\ last'.arg[2] # <<>> =>
       /\ address' = Head(last'.arg[2])
       /\ last'.reqs = <<>>
       /\ last'.native = <<>>
       /\ last'.toasts = <<>>
       /\ ops' = ops
       /\ listeners' = listeners
       /\ <<provider, wcProvider, browserProvider, signer, chainId, selectedWallet>>'
            = <<provider, wcProvider, browserProvider, signer, chainId, selectedWallet>>]_vars

\* a two-entry list arrived while a Session was present
C17_Witness ==
  /\ last.act = "accountsChanged"
  /\ Len(last.arg[2]) = 2
  /\ address = last.arg[2][1]
  /\ address # last.arg[2][2]
  /\ provider # NoT
  /\ signer # NoSigner
  /\ signer.acct # address

SuccessTitles ==
  {"Network Switched", "Network Added", "Wallet Connected", "Transaction Sent"}

C19_FailuresCaughtOnce ==
  /\ last.act # "effect.init" => last.unhandled = 0
  /\ \A f \in Range(last.fin) :
       f.kind \in {"connect", "switch", "send", "cc"} /\ f.pc = "failed"
         => f.errs = 1

Count(seq, x) ==
  Cardinality({i \in DOMAIN seq : seq[i] = x})

TemporaryListeners ==
  {l \in UNION {Range(listeners[t]) : t \in DOMAIN listeners} :
     l.h = "chainChangedHandler"}

\* C21: the temporary chainChanged listener of a confirmation wait is
\* registered only while its switchChain call is parked in that wait: once
\* the call has settled (notification, timeout or error) it is gone.
C21_TemporaryListenerRemoved ==
  \A l \in TemporaryListeners : l.op \in InFlight /\ l.op.pc = "sw_wait"

\* a switchChain call went through the wait and completed, and no temporary
\* listener is left
C21_Witness ==
  /\ \E f \in Range(last.fin) :
       f.kind = "switch" /\ f.pc = "done" /\ f.q # NullChain
  /\ "Network Switched" \in Range(last.toasts)
  /\ TemporaryListeners = {}
  /\ \E t \in DOMAIN listeners : Listens(t, "chainChanged")

\* C22: when switchChain on a WalletConnect transport re-emits chainChanged
\* with the payload eip155:<id> and handleChainChanged processes it, chainId
\* is left equal to the chain id the call has just queried.
C22_ReemitKeepsQueriedChain ==
  [][\A o \in InFlight :
       /\ SwitchLogDone(o, TRUE)
       /\ variant = 3
       /\ o.env.wcProvider # NoT
       /\ \E l \in Range(listeners[o.env.wcProvider]) : l.h = "handleChainChanged"
       => chainId' = walletChain[o.env.provider]]_vars

Registered(t, h) ==
  Cardinality({i \in 1..Len(listeners[t]) : listeners[t][i].h = h})

\* C23: when connectWallet has completed and established the Session, its
\* transport carries one handleAccountsChanged and one handleChainChanged
\* listener, and a WalletConnect transport also one disconnect listener.
C23_ListenersOfSession ==
  \A f \in Range(last.fin) :
    f.kind = "connect" /\ f.pc = "done" =>
      /\ Registered(f.t, "handleAccountsChanged") = 1
      /\ Registered(f.t, "handleChainChanged") = 1
      /\ f.t.k = "wc" => Registered(f.t, "disconnectWallet") = 1

\* C24: a connectWallet call that ended in failure has left none of its
\* listeners on the transport it tried.
C24_FailedConnectLeavesNoListener ==
  \A f \in Range(last.fin) :
    f.kind = "connect" /\ f.pc = "failed" /\ f.t # NoT =>
      \A l \in Range(listeners[f.t]) :
        l.h \in {"handleAccountsChanged", "handleChainChanged", "disconnectWallet"}
          => l.env # f.env

\* C25: while the Session is absent, no step other than a step of
\* connectWallet writes chainId, address, signer or browserProvider: not a
\* notification from the former transport, and not a continuation that was
\* pending when the Session was cleared.
C25_AbsentStaysAbsent ==
  [][SessionAbsent /\ last'.act \notin {"connect", "connect.auth", "connect.net"} =>
       /\ chainId' = NullChain
       /\ address' = ""
       /\ signer' = NoSigner
       /\ browserProvider' = NoWrapper]_vars

\* C26: a sendTransaction call that switched chains submits its transaction
\* through the signer it re-derived after the switch and reads the nonce
\* through the wrapper it re-initialized after the switch.
C26_SendUsesRederivedSigner ==
  \A o \in InFlight \cup Range(last.fin) :
    o.kind = "send" /\ o.tx # NoTx /\ o.sg # NoSigner =>
      /\ o.tx.signer = o.sg
      /\ o.tx.via = o.w

\* C27: a chainChanged notification on the transport of a present Session,
\* delivered to the handleChainChanged that connectWallet installed, starts a
\* re-derivation of the signer from that transport.
C27_ChainChangedRederives ==
  [][/\ last'.act = "chainChanged"
     /\ provider # NoT
     /\ signer # NoSigner
     /\ last'.arg[1] = provider
     /\ Registered(provider, "handleChainChanged") > 0
     => \E o \in BagToSet(ops') :
          /\ o.kind = "cc"
          /\ o.t = provider
          /\ CopiesIn(o, ops') > CopiesIn(o, ops)]_vars

\* descriptor d asks for the injected provider of a vendor that
\* window.ethereum is not
VendorMissing(d) ==
  \/ /\ Branch(d) = "trust"
     /\ ~(windowEthereum # NoT /\ isTrust(windowEthereum))
  \/ /\ variant = 2
     /\ Branch(d) = "coinbase"
     /\ ~(windowEthereum # NoT /\ isCoinbaseWallet(windowEthereum))

\* C28: connectWallet with a Trust descriptor, or with a Coinbase descriptor
\* where there is no Coinbase SDK, while window.ethereum is missing or lacks
\* the vendor flag, ends at once with "Connection Error": no request, no
\* listener, nothing parked, Session and registry unchanged.
C28_VendorMissingFails ==
  [][last'.act = "connect" /\ VendorMissing(last'.arg) =>
       /\ last'.toasts = <<"Connection Error">>
       /\ last'.reqs = <<>>
       /\ last'.native = <<>>
       /\ listeners' = listeners
       /\ ops' = ops
       /\ SessionFields' = SessionFields
       /\ eip6963Providers' = eip6963Providers
       /\ isConnecting' = FALSE]_vars

\* a Coinbase descriptor was chosen while window.ethereum is another
\* vendor's provider
C28_Witness ==
  /\ last.act = "connect"
  /\ variant = 2
  /\ Branch(last.arg) = "coinbase"
  /\ windowEthereum # NoT
  /\ last.toasts = <<"Connection Error">>
  /\ Len(last.fin) = 1
  /\ last.fin[1].pc = "failed"

\* the step runs disconnectWallet: the Disconnect button, a zero-account
\* notification, or the transport's own disconnect notification
Disconnects ==
  \/ last'.act \in {"disconnect", "transport.disconnect"}
  \/ last'.act = "accountsChanged" /\ last'.arg[2] = <<>>

\* C29: a step that runs disconnectWallet on a present Session calls the
\* transport's native disconnect exactly once when the transport has one and
\* not at all when it has none.
C29_NativeDisconnectOnce ==
  [][Disconnects /\ provider # NoT /\ signer # NoSigner /\ selectedWallet # NoInfo =>
       IF HasDisconnect(provider)
         THEN last'.native = <<provider>>
         ELSE last'.native = <<>>]_vars

\* C30: a step that runs disconnectWallet on a Session whose transport does
\* not come from the Coinbase SDK schedules no purge.
C30_PurgeOnlyForSdk ==
  [][/\ Disconnects
     /\ provider # NoT
     /\ provider.k # "sdk"
     /\ signer # NoSigner
     /\ selectedWallet # NoInfo
     => timers' = timers]_vars

\* C31: when a purge timer fires while a Session is present on another
\* transport than the one the timer was scheduled for, the step removes no
\* pairing key of that Session and does not disconnect its transport.
C31_PurgeSparesLaterSession ==
  [][\A tm \in BagToSet(timers) :
       /\ PurgeTimerFires(tm)
       /\ provider # NoT
       /\ provider # tm.provider
       /\ signer # NoSigner
       /\ selectedWallet # NoInfo
       => /\ PairingKey(provider) \cap localStorage \subseteq localStorage'
          /\ provider \notin Range(last'.native)]_vars

\* C32: whenever a Session is present and no operation is in flight,
\* address is the account of signer.
C32_AddressIsSignerAccount ==
  /\ provider # NoT
  /\ signer # NoSigner
  /\ selectedWallet # NoInfo
  /\ ops = EmptyBag
  => address = signer.acct

\* the positions of a call inside switchChain or addNetwork
SwitchPositions ==
  {"sw_req", "sw_add", "sw_wait", "sw_settled", "sw_net", "sw_signer",
   "sw_log", "sw_trust"}

\* C33: each busy flag is true exactly while a call of its operation is in
\* flight: isConnecting for connectWallet, isSwitchingChain for switchChain
\* (also when nested in sendTransaction), isSendingTransaction for
\* sendTransaction.
C33_BusyFlagsExact ==
  /\ isConnecting <=> \E o \in InFlight : o.kind = "connect"
  /\ isSwitchingChain <=>
       \E o \in InFlight : o.kind \in Calls /\ o.pc \in SwitchPositions
  /\ isSendingTransaction <=> \E o \in InFlight : o.kind = "send"

\* C34: sendTransaction hands its transaction to the signer only while the
\* wallet behind that signer is on the target chain, also when the user has
\* just selected another chain in the wallet.
C34_SubmitOnTargetChain ==
  [][\A o \in InFlight :
       SendNonceDone(o, TRUE) /\ last.act = "wallet.chain" =>
         walletChain[o.env.signer.t] = targetChainId(o.chain)]_vars

\* C35: a step of switchChain that shows "Network Switched" is taken only
\* while the wallet is on the requested chain.
C35_SuccessOnlyOnTarget ==
  [][\A o \in InFlight :
       /\ SwitchLogDone(o, TRUE) \/ SwitchTrustDone(o, TRUE)
       /\ "Network Switched" \in Range(last'.toasts)
       => walletChain[o.env.provider] = targetChainId(o.chain)]_vars
====
